---- MODULE Spec2Model ----
(***************************************************************************)
(* A model of src/main.py: the name normalizer (normalize_name), the       *)
(* in-memory registry index (IbgeIndex.__init__), the disambiguator        *)
(* (IbgeIndex._choose_preferred_municipio), the matcher (IbgeIndex.match,  *)
(* including difflib.get_close_matches as it is called there) and the      *)
(* batch driver (processar_csv).                                           *)
(*                                                                         *)
(* A Python str is a sequence of characters; a character is one of the     *)
(* tokens of CodeOrder.  A Python dict read with .get is a record.         *)
(***************************************************************************)
EXTENDS Integers, Sequences, FiniteSets, TLC

VARIABLES
    pc,                   \* where the run stands
    name,                 \* normalize_name: the argument
    normalized,           \* normalize_name(name)
    renormalized,         \* normalize_name(normalize_name(name))
    municipios,           \* IbgeIndex.municipios
    name_to_municipios,   \* IbgeIndex.name_to_municipios (a defaultdict(list))
    normalized_names,     \* IbgeIndex.normalized_names (a list)
    municipio_input,      \* the argument of the last match call
    result,               \* what the last match call returned
    rows_read,            \* processar_csv: the rows the reader has yielded
    linhas_output,        \* processar_csv: linhas_output
    total_municipios,
    total_ok,
    total_nao_encontrado,
    total_erro_api,
    pop_total_ok,
    soma_por_regiao,      \* defaultdict(int)
    cont_por_regiao,      \* defaultdict(int)
    stats                 \* the dict processar_csv returns

normVars  == <<name, normalized, renormalized>>
indexVars == <<municipios, name_to_municipios, normalized_names>>
callVars  == <<municipio_input, result>>
csvVars   == <<rows_read, linhas_output, total_municipios, total_ok,
               total_nao_encontrado, total_erro_api, pop_total_ok,
               soma_por_regiao, cont_por_regiao, stats>>
vars      == <<pc, normVars, indexVars, callVars, csvVars>>

(***************************************************************************)
(* Bounds of the model.                                                    *)
(***************************************************************************)
MaxLen == 3         \* longest argument given to normalize_name on its own
MaxRegistry == 3    \* most entries in the registry the index is built from
MaxRows == 3        \* most rows of input.csv

(***************************************************************************)
(* Characters.  CodeOrder lists the characters of the model in code point  *)
(* order: U+0009, U+0020, U+002D, the digits 1 and 7, A, the letters a b c *)
(* d e x, U+00A0 (no-break space), U+00C1 and U+00E1 (A and a with acute)  *)
(* and U+0301 (combining acute accent).                                    *)
(***************************************************************************)
CodeOrder ==
    <<"TAB", "SP", "HYPHEN", "1", "7", "A", "a", "b", "c", "d", "e", "x",
      "NBSP", "AACUTE", "aacute", "ACUTE">>

CodePoint(c) == CHOOSE i \in 1..Len(CodeOrder) : CodeOrder[i] = c

\* A value that is not a str (None, a number): isinstance(name, str) is False.
NotStr == <<"<not a str>">>

IsStr(x) == x # NotStr

\* unicodedata.normalize("NFKD", c) for one character.
Decompose(c) ==
    CASE c = "AACUTE" -> <<"A", "ACUTE">>
      [] c = "aacute" -> <<"a", "ACUTE">>
      [] c = "NBSP"   -> <<"SP">>
      [] OTHER        -> <<c>>

\* unicodedata.combining(c) # 0
Combining(c) == c = "ACUTE"

\* c.lower()
Lower(c) ==
    CASE c = "A"      -> "a"
      [] c = "AACUTE" -> "aacute"
      [] OTHER        -> c

\* c.isupper()
IsUpper(c) == c \in {"A", "AACUTE"}

\* c.isalnum(): the letters and the digits
IsAlnum(c) ==
    c \in {"1", "7", "A", "a", "b", "c", "d", "e", "x", "AACUTE", "aacute"}

\* c.isspace()
IsSpace(c) == c \in {"TAB", "SP", "NBSP"}

RECURSIVE DecomposeFrom(_, _)
\* "".join of the decomposition of each character of s from position i on
DecomposeFrom(s, i) ==
    IF i > Len(s) THEN <<>> ELSE Decompose(s[i]) \o DecomposeFrom(s, i + 1)

\* unicodedata.normalize("NFKD", s).  The strings of the model carry one kind
\* of combining mark, so the canonical reordering of marks changes nothing.
NFKD(s) == DecomposeFrom(s, 1)

RECURSIVE StripCombining(_, _)
\* "".join(c for c in s if not unicodedata.combining(c))
StripCombining(s, i) ==
    IF i > Len(s) THEN <<>>
    ELSE (IF ~Combining(s[i]) THEN <<s[i]>> ELSE <<>>) \o StripCombining(s, i + 1)

RECURSIVE KeepAlnumSpace(_, _)
\* the loop that appends c to cleaned when c.isalnum() or c.isspace()
KeepAlnumSpace(s, i) ==
    IF i > Len(s) THEN <<>>
    ELSE (IF IsAlnum(s[i]) \/ IsSpace(s[i]) THEN <<s[i]>> ELSE <<>>)
             \o KeepAlnumSpace(s, i + 1)

\* s.lower(), character by character
LowerStr(s) == [i \in 1..Len(s) |-> Lower(s[i])]

RECURSIVE SplitFrom(_, _, _)
\* s.split(): the maximal runs of non-whitespace characters, in order.
\* cur is the run being read.
SplitFrom(s, i, cur) ==
    IF i > Len(s) THEN (IF cur = <<>> THEN <<>> ELSE <<cur>>)
    ELSE IF IsSpace(s[i])
         THEN (IF cur = <<>> THEN <<>> ELSE <<cur>>) \o SplitFrom(s, i + 1, <<>>)
         ELSE SplitFrom(s, i + 1, Append(cur, s[i]))

Split(s) == SplitFrom(s, 1, <<>>)

RECURSIVE JoinFrom(_, _)
\* " ".join(words)
JoinFrom(words, i) ==
    IF i > Len(words) THEN <<>>
    ELSE IF i = Len(words) THEN words[i]
    ELSE words[i] \o <<"SP">> \o JoinFrom(words, i + 1)

Join(words) == JoinFrom(words, 1)

\* A variant that collapses the whitespace before it drops the symbols.
normalize_name_collapse_first(x) ==
    IF ~IsStr(x) THEN <<>>
    ELSE LET nfkd == NFKD(x)
             without_accents == StripCombining(nfkd, 1)
             lower == LowerStr(without_accents)
             collapsed == Join(Split(lower))
         IN  KeepAlnumSpace(collapsed, 1)

normalize_name(x) ==
    IF ~IsStr(x) THEN <<>>
    ELSE LET nfkd == NFKD(x)
             without_accents == StripCombining(nfkd, 1)
             lower == LowerStr(without_accents)
             normalized_ == KeepAlnumSpace(lower, 1)
         IN  Join(Split(normalized_))

(***************************************************************************)
(* normalize_name on its own: every string of at most MaxLen characters    *)
(* over NormAlphabet, and a value that is not a str.                       *)
(***************************************************************************)
NormAlphabet == {"TAB", "SP", "HYPHEN", "1", "A", "a", "NBSP", "AACUTE", "aacute", "ACUTE"}

StringsUpTo(n, alphabet) == UNION {[1..k -> alphabet] : k \in 0..n}

Unset == <<"<unset>">>

\* {} and defaultdict() before any key is set
EmptyDict == [k \in {} |-> 0]

IdleIndex ==
    /\ municipios = <<>>
    /\ name_to_municipios = EmptyDict
    /\ normalized_names = <<>>

IdleCall ==
    /\ municipio_input = Unset
    /\ result = [status |-> "NONE", muni_data |-> <<>>, stage |-> "none", raised |-> FALSE]

IdleCsv ==
    /\ rows_read = <<>>
    /\ linhas_output = <<>>
    /\ total_municipios = 0
    /\ total_ok = 0
    /\ total_nao_encontrado = 0
    /\ total_erro_api = 0
    /\ pop_total_ok = 0
    /\ soma_por_regiao = EmptyDict
    /\ cont_por_regiao = EmptyDict
    /\ stats = EmptyDict

IdleNorm ==
    /\ name = Unset
    /\ normalized = Unset
    /\ renormalized = Unset

InitNormalize ==
    /\ pc = "norm0"
    /\ name \in StringsUpTo(MaxLen, NormAlphabet) \cup {NotStr}
    /\ normalized = Unset
    /\ renormalized = Unset
    /\ IdleIndex /\ IdleCall /\ IdleCsv

\* normalize_name(name)
Normalize ==
    /\ pc = "norm0"
    /\ normalized' = normalize_name(name)
    /\ pc' = "norm1"
    /\ UNCHANGED <<name, renormalized, indexVars, callVars, csvVars>>

\* normalize_name applied to its own result
NormalizeAgain ==
    /\ pc = "norm1"
    /\ renormalized' = normalize_name(normalized)
    /\ pc' = "norm2"
    /\ UNCHANGED <<name, normalized, indexVars, callVars, csvVars>>

NextNormalize == Normalize \/ NormalizeAgain

SpecNormalize == InitNormalize /\ [][NextNormalize]_vars

(***************************************************************************)
(* Registry entries.  An entry is a dict with "id", "nome" and the nested  *)
(* location "microrregiao" -> "mesorregiao" -> "UF" -> ("sigla",           *)
(* "regiao" -> "nome").  loc is what walking that path yields:             *)
(*   full      every level is a dict: sigla and regiao are read;           *)
(*   missing   a level is absent or None: `x.get(k, {}) or {}` turns it    *)
(*             into {}, and sigla and regiao come out as "";               *)
(*   malformed a level is a non-empty value that is no dict (a str): the   *)
(*             next .get raises AttributeError.                            *)
(* A region name that is a non-empty list is read as it stands; it is not  *)
(* equal to any str, it is true as a condition and it cannot be a dict     *)
(* key.  id is the entry's place in the registry, so that two entries with *)
(* the same fields remain two objects.                                     *)
(***************************************************************************)
ListName == "<a list>"

LocSudeste   == [shape |-> "full", sigla |-> "SP", regiao |-> "Sudeste"]
LocSul       == [shape |-> "full", sigla |-> "PR", regiao |-> "Sul"]
LocMissing   == [shape |-> "missing", sigla |-> "", regiao |-> ""]
LocMalformed == [shape |-> "malformed", sigla |-> "", regiao |-> ""]
LocListName  == [shape |-> "full", sigla |-> "PR", regiao |-> ListName]

\* mic, meso, uf_dict, regiao_dict and the two reads at the end of the path
\* (lines 130-134 of the disambiguator, 302-308 of the driver)
RegionLookup(m) ==
    CASE m.loc.shape = "malformed" -> [raised |-> TRUE, sigla |-> "", regiao |-> ""]
      [] m.loc.shape = "missing"   -> [raised |-> FALSE, sigla |-> "", regiao |-> ""]
      [] OTHER -> [raised |-> FALSE, sigla |-> m.loc.sigla, regiao |-> m.loc.regiao]

Entry(nome, loc) == [nome |-> nome, loc |-> loc]

\* the entries a registry is drawn from: "Abc" in the preferred region, in
\* another region and malformed; "ábc" (the same key, "abc"); "abcd"; "abc-e"
EntryPool ==
    { Entry(<<"A", "b", "c">>, LocSudeste),
      Entry(<<"A", "b", "c">>, LocSul),
      Entry(<<"A", "b", "c">>, LocMalformed),
      Entry(<<"aacute", "b", "c">>, LocSudeste),
      Entry(<<"a", "b", "c", "d">>, LocSul),
      Entry(<<"a", "b", "c", "HYPHEN", "e">>, LocSul) }

\* the registries of at most n entries of pool, in every order
RegistriesOf(n, pool) ==
    UNION { { [i \in 1..k |-> [id |-> i, nome |-> f[i].nome, loc |-> f[i].loc]] :
                f \in [1..k -> pool] } : k \in 0..n }

Registries == RegistriesOf(MaxRegistry, EntryPool)

(***************************************************************************)
(* IbgeIndex.__init__                                                      *)
(***************************************************************************)
\* d[k] = [v]: the group is replaced, not extended
DictAppendOverwrite(d, k, v) == (k :> <<v>>) @@ d

\* d[k].append(v) on a defaultdict(list)
DictAppend(d, k, v) ==
    IF k \in DOMAIN d THEN [d EXCEPT ![k] = Append(@, v)]
    ELSE (k :> <<v>>) @@ d

RECURSIVE IndexLoop(_, _, _, _)
RECURSIVE IndexEntry(_, _, _, _, _)
\* the loop `for m in municipios` from entry i on
IndexLoop(ms, i, n2m, names) ==
    IF i > Len(ms) THEN [name_to_municipios |-> n2m, normalized_names |-> names]
    ELSE IndexEntry(ms, i, n2m, names, normalize_name(ms[i].nome))

\* the body of the loop: norm is the normalized nome_oficial of entry i
IndexEntry(ms, i, n2m, names, norm) ==
    IndexLoop(ms, i + 1, DictAppend(n2m, norm, ms[i]), Append(names, norm))

SeqToSet(s) == {s[i] : i \in 1..Len(s)}

\* the lists that hold each element of S once
Orderings(S) ==
    {f \in [1..Cardinality(S) -> S] : \A i, j \in 1..Cardinality(S) : f[i] = f[j] => i = j}

\* list(set(names)): each distinct name once, in the set's iteration order,
\* which is any order
ListOfSet(names) == Orderings(SeqToSet(names))

(***************************************************************************)
(* IbgeIndex._choose_preferred_municipio                                   *)
(***************************************************************************)
RECURSIVE ChooseLoopNoCatch(_, _)
\* the loop without its try/except: a malformed entry ends the call
ChooseLoopNoCatch(lista, i) ==
    IF i > Len(lista)
    THEN (IF lista = <<>> THEN [raised |-> TRUE, chosen |-> <<>>]
          ELSE [raised |-> FALSE, chosen |-> <<lista[1]>>])
    ELSE LET r == RegionLookup(lista[i])
         IN  IF r.raised THEN [raised |-> TRUE, chosen |-> <<>>]
             ELSE IF r.regiao = "Sudeste" THEN [raised |-> FALSE, chosen |-> <<lista[i]>>]
             ELSE ChooseLoopNoCatch(lista, i + 1)

RECURSIVE ChooseLoop(_, _)
\* the loop `for m in lista` from entry i on, then `return lista[0]`, which
\* raises IndexError on an empty list
ChooseLoop(lista, i) ==
    IF i > Len(lista)
    THEN (IF lista = <<>> THEN [raised |-> TRUE, chosen |-> <<>>]
          ELSE [raised |-> FALSE, chosen |-> <<lista[1]>>])
    ELSE LET r == RegionLookup(lista[i])
         IN  IF ~r.raised /\ r.regiao = "Sudeste"
             THEN [raised |-> FALSE, chosen |-> <<lista[i]>>]
             ELSE ChooseLoop(lista, i + 1)

\* the disambiguator without its try/except
choose_without_catch(lista) == ChooseLoopNoCatch(lista, 1)

choose_preferred_municipio(lista) == ChooseLoop(lista, 1)

(***************************************************************************)
(* difflib as match calls it: SequenceMatcher with no junk (the automatic  *)
(* junk heuristic needs a second sequence of 200 elements or more), a is   *)
(* the candidate key and b the normalized input.  Positions are Python's:  *)
(* they count from 0 and a range [lo, hi) leaves hi out.                   *)
(***************************************************************************)
CutoffPercent == 75     \* cutoff=0.75
MaxCandidates == 3      \* n=3

RECURSIVE RunLen(_, _, _, _, _, _)
\* how far a[i:ahi] and b[j:bhi] agree from their first elements
RunLen(a, b, i, j, ahi, bhi) ==
    IF i < ahi /\ j < bhi /\ a[i + 1] = b[j + 1]
    THEN 1 + RunLen(a, b, i + 1, j + 1, ahi, bhi)
    ELSE 0

SetMax(S) == CHOOSE x \in S : \A y \in S : y <= x

SetMin(S) == CHOOSE x \in S : \A y \in S : x <= y

\* of the blocks (size, i, j) the longest; of the longest, the one that
\* starts earliest in a, and of those the one that starts earliest in b
EarliestLongest(sized, bestsize) ==
    LET besti == SetMin({t[2] : t \in {u \in sized : u[1] = bestsize}})
    IN  [i |-> besti,
         j |-> SetMin({t[3] : t \in {u \in sized : u[1] = bestsize /\ u[2] = besti}}),
         k |-> bestsize]

LongestBlock(sized, alo, blo) ==
    IF sized = {} \/ SetMax({t[1] : t \in sized}) = 0
    THEN [i |-> alo, j |-> blo, k |-> 0]
    ELSE EarliestLongest(sized, SetMax({t[1] : t \in sized}))

\* SequenceMatcher.find_longest_match: the longest block common to a[alo:ahi]
\* and b[blo:bhi], (alo, blo, 0) when there is none
find_longest_match(a, b, alo, ahi, blo, bhi) ==
    LongestBlock({<<RunLen(a, b, i, j, ahi, bhi), i, j>> :
                     i \in alo..(ahi - 1), j \in blo..(bhi - 1)}, alo, blo)

RECURSIVE MatchedSize(_, _, _, _, _, _)
RECURSIVE BlocksAround(_, _, _, _, _, _, _)
\* SequenceMatcher.get_matching_blocks, summed: the longest block, then the
\* blocks of what lies left of it and of what lies right of it
MatchedSize(a, b, alo, ahi, blo, bhi) ==
    BlocksAround(a, b, alo, ahi, blo, bhi, find_longest_match(a, b, alo, ahi, blo, bhi))

\* x is the longest block of a[alo:ahi] and b[blo:bhi]
BlocksAround(a, b, alo, ahi, blo, bhi, x) ==
    IF x.k = 0 THEN 0
    ELSE x.k
         + (IF alo < x.i /\ blo < x.j
            THEN MatchedSize(a, b, alo, x.i, blo, x.j) ELSE 0)
         + (IF x.i + x.k < ahi /\ x.j + x.k < bhi
            THEN MatchedSize(a, b, x.i + x.k, ahi, x.j + x.k, bhi) ELSE 0)

\* SequenceMatcher.ratio: 2.0 * matches / length, 1.0 when length is 0.  The
\* quotient is kept as the pair (2 * matches, length).
Ratio(a, b) ==
    LET length == Len(a) + Len(b)
    IN  IF length = 0 THEN [num |-> 1, den |-> 1]
        ELSE [num |-> 2 * MatchedSize(a, b, 0, Len(a), 0, Len(b)), den |-> length]

\* score > cutoff
ReachesCutoffStrict(score) == 100 * score.num > CutoffPercent * score.den

\* score >= cutoff.  real_quick_ratio and quick_ratio are upper bounds of
\* ratio, so the three tests of get_close_matches come down to this one.
ReachesCutoff(score) == 100 * score.num >= CutoffPercent * score.den

ScoreLess(s, t) == s.num * t.den < t.num * s.den

RECURSIVE StrLessFrom(_, _, _)
StrLessFrom(s, t, i) ==
    IF i > Len(t) THEN FALSE
    ELSE IF i > Len(s) THEN TRUE
    ELSE IF s[i] = t[i] THEN StrLessFrom(s, t, i + 1)
    ELSE CodePoint(s[i]) < CodePoint(t[i])

\* s < t on two str: by code point, a proper prefix first
StrLess(s, t) == StrLessFrom(s, t, 1)

\* only the score is compared: of two pairs with one score neither is less
PairLessScoreOnly(p, q) == ScoreLess(p.score, q.score)

\* (score, x) < (score', x') on two tuples
PairLess(p, q) ==
    \/ ScoreLess(p.score, q.score)
    \/ ~ScoreLess(q.score, p.score) /\ StrLess(p.x, q.x)

RemoveAt(s, i) == [j \in 1..(Len(s) - 1) |-> IF j < i THEN s[j] ELSE s[j + 1]]

\* the place of the greatest pair; of pairs that compare equal, the first
Greatest(pairs) ==
    CHOOSE i \in 1..Len(pairs) :
        /\ \A j \in 1..Len(pairs) : ~PairLess(pairs[i], pairs[j])
        /\ \A j \in 1..(i - 1) : PairLess(pairs[j], pairs[i])

RECURSIVE NLargest(_, _)
RECURSIVE TakeGreatest(_, _, _)
\* heapq.nlargest(n, result): the n greatest pairs, the greatest first
NLargest(n, pairs) ==
    IF n = 0 \/ pairs = <<>> THEN <<>>
    ELSE TakeGreatest(n, pairs, Greatest(pairs))

TakeGreatest(n, pairs, top) == <<pairs[top]>> \o NLargest(n - 1, RemoveAt(pairs, top))

\* `if ... s.ratio() >= cutoff: result.append((s.ratio(), x))`
Retain(score, x) ==
    IF ReachesCutoff(score) THEN <<[score |-> score, x |-> x]>> ELSE <<>>

RECURSIVE Scored(_, _, _)
\* the loop `for x in possibilities` from element i on: result
Scored(word, possibilities, i) ==
    IF i > Len(possibilities) THEN <<>>
    ELSE Retain(Ratio(possibilities[i], word), possibilities[i])
             \o Scored(word, possibilities, i + 1)

\* [x for score, x in result]
StripScores(pairs) == [i \in 1..Len(pairs) |-> pairs[i].x]

\* difflib.get_close_matches(word, possibilities, n=3, cutoff=0.75)
get_close_matches(word, possibilities) ==
    StripScores(NLargest(MaxCandidates, Scored(word, possibilities, 1)))

(***************************************************************************)
(* IbgeIndex.match                                                         *)
(***************************************************************************)
\* `if self.name_to_municipios[norm_input]`: a read of the defaultdict, which
\* sets an absent key to an empty list
KeyInByGetitem(n2m, key) ==
    IF key \in DOMAIN n2m THEN [found |-> n2m[key] # <<>>, n2m |-> n2m]
    ELSE [found |-> FALSE, n2m |-> (key :> <<>>) @@ n2m]

\* `norm_input in self.name_to_municipios`: a membership test sets nothing
KeyIn(n2m, key) == [found |-> key \in DOMAIN n2m, n2m |-> n2m]

\* self.name_to_municipios[key]: a read of the defaultdict
Getitem(n2m, key) ==
    IF key \in DOMAIN n2m THEN [value |-> n2m[key], n2m |-> n2m]
    ELSE [value |-> <<>>, n2m |-> (key :> <<>>) @@ n2m]

Found(m, stage, n2m) ==
    [status |-> "OK", muni_data |-> <<m>>, stage |-> stage, raised |-> FALSE, n2m |-> n2m]

NotFound(stage, n2m) ==
    [status |-> "NAO_ENCONTRADO", muni_data |-> <<>>, stage |-> stage,
     raised |-> FALSE, n2m |-> n2m]

Raised(stage, n2m) ==
    [status |-> "RAISED", muni_data |-> <<>>, stage |-> stage, raised |-> TRUE, n2m |-> n2m]

RECURSIVE FirstSingle(_, _, _)
\* the first candidate from place i on whose group has one entry
FirstSingle(n2m, candidates, i) ==
    IF i > Len(candidates) THEN NotFound("approx", n2m)
    ELSE IF Len(n2m[candidates[i]]) = 1 THEN Found(n2m[candidates[i]][1], "approx", n2m)
    ELSE FirstSingle(n2m, candidates, i + 1)

\* the approximate stage falls back on the best retained key whose group has
\* one entry
ApproximateStageFallback(n2m, names, norm_input) ==
    FirstSingle(n2m, get_close_matches(norm_input, names), 1)

\* lines 182-188: lista is got.value
GroupDecides(got) ==
    IF Len(got.value) = 1 THEN Found(got.value[1], "approx", got.n2m)
    ELSE NotFound("approx", got.n2m)

\* lines 175-180
BestDecides(n2m, candidates) ==
    IF candidates = <<>> THEN NotFound("approx", n2m)
    ELSE GroupDecides(Getitem(n2m, candidates[1]))

\* lines 167-188
ApproximateStage(n2m, names, norm_input) ==
    BestDecides(n2m, get_close_matches(norm_input, names))

\* a group of several entries is reported as not found
ExactStageAmbiguous(n2m, norm_input) ==
    LET lista == n2m[norm_input]
    IN  IF Len(lista) = 1 THEN Found(lista[1], "exact", n2m)
        ELSE NotFound("exact", n2m)

\* lines 164-165
Escolhido(escolhido, n2m) ==
    IF escolhido.raised THEN Raised("exact", n2m)
    ELSE Found(escolhido.chosen[1], "exact", n2m)

\* lines 156-165
ExactStage(n2m, norm_input) ==
    IF Len(n2m[norm_input]) = 1 THEN Found(n2m[norm_input][1], "exact", n2m)
    ELSE Escolhido(choose_preferred_municipio(n2m[norm_input]), n2m)

\* lines 155 and 167: test is the outcome of `norm_input in ...`
Stages(test, names, norm_input) ==
    IF test.found THEN ExactStage(test.n2m, norm_input)
    ELSE ApproximateStage(test.n2m, names, norm_input)

MatchKey(n2m, names, norm_input) == Stages(KeyIn(n2m, norm_input), names, norm_input)

match(n2m, names, input) == MatchKey(n2m, names, normalize_name(input))

\* what the caller receives: (status, muni_data), or an exception
Returned(r) ==
    [status |-> r.status, muni_data |-> r.muni_data, stage |-> r.stage, raised |-> r.raised]

(***************************************************************************)
(* The index and the matcher: an index is built from a registry, then      *)
(* match is called any number of times.                                    *)
(***************************************************************************)
\* the names match is called with: "abc", "Ábc", "abcx", "abd", "-"
InputPool ==
    { <<"a", "b", "c">>, <<"AACUTE", "b", "c">>, <<"a", "b", "c", "x">>,
      <<"a", "b", "d">>, <<"HYPHEN">> }

Init ==
    /\ pc = "start"
    /\ IdleNorm /\ IdleIndex /\ IdleCall /\ IdleCsv

\* IbgeIndex(municipios)
Construct ==
    /\ pc = "start"
    /\ \E ms \in Registries :
        \E built \in {IndexLoop(ms, 1, EmptyDict, <<>>)} :
            /\ municipios' = ms
            /\ name_to_municipios' = built.name_to_municipios
            /\ normalized_names' \in ListOfSet(built.normalized_names)
    /\ pc' = "indexed"
    /\ UNCHANGED <<normVars, callVars, csvVars>>

\* ibge_index.match(input)
MatchCall ==
    /\ pc = "indexed"
    /\ \E input \in InputPool :
        \E r \in {match(name_to_municipios, normalized_names, input)} :
            /\ municipio_input' = input
            /\ result' = Returned(r)
            /\ name_to_municipios' = r.n2m
    /\ UNCHANGED <<pc, municipios, normalized_names, normVars, csvVars>>

Next == Construct \/ MatchCall

Spec == Init /\ [][Next]_vars

\* C7: normalize_name is idempotent, and its result holds no combining mark,
\* no upper-case letter, no character that is neither alphanumeric nor a
\* space, no leading or trailing space and no two consecutive spaces.
C7_Idempotent ==
    /\ pc \in {"norm1", "norm2"} =>
        /\ \A i \in 1..Len(normalized) :
            /\ ~Combining(normalized[i])
            /\ ~IsUpper(normalized[i])
            /\ IsAlnum(normalized[i]) \/ normalized[i] = "SP"
        /\ normalized # <<>> => normalized[1] # "SP" /\ normalized[Len(normalized)] # "SP"
        /\ \A i \in 1..(Len(normalized) - 1) :
            ~(normalized[i] = "SP" /\ normalized[i + 1] = "SP")
    /\ pc = "norm2" => renormalized = normalized

\* a string with an accent, an upper-case letter, a symbol between two spaces
\* has been normalized twice
C7_Witness ==
    /\ pc = "norm2"
    /\ name = <<"AACUTE", "SP", "HYPHEN">>
    /\ normalized = <<"a">>
    /\ renormalized = <<"a">>

(***************************************************************************)
(* What the claims about the index and the matcher are stated with, read   *)
(* off the registry as it was received.                                    *)
(***************************************************************************)
KeyOf(m) == normalize_name(m.nome)

RegistryKeys == {KeyOf(municipios[i]) : i \in 1..Len(municipios)}

HasKey(m, key) == KeyOf(m) = key

RECURSIVE EntriesWithKey(_, _)
\* the entries of the registry from place i on whose key is key, in order
EntriesWithKey(key, i) ==
    IF i > Len(municipios) THEN <<>>
    ELSE (IF HasKey(municipios[i], key) THEN <<municipios[i]>> ELSE <<>>)
             \o EntriesWithKey(key, i + 1)

GroupOf(key) == EntriesWithKey(key, 1)

\* the places of lista that hold an entry of the preferred region
PreferredPlaces(lista) ==
    {i \in 1..Len(lista) : lista[i].loc.shape = "full" /\ lista[i].loc.regiao = "Sudeste"}

\* the first entry of the preferred region, the first entry when there is none
Preferred(lista) ==
    IF PreferredPlaces(lista) = {} THEN lista[1]
    ELSE lista[SetMin(PreferredPlaces(lista))]

Called == pc = "indexed" /\ municipio_input # Unset

InputKey == normalize_name(municipio_input)

\* M and T of a candidate key against the normalized input
BlocksM(key) == MatchedSize(key, InputKey, 0, Len(key), 0, Len(InputKey))
TotalT(key) == Len(key) + Len(InputKey)

\* the keys whose score 2*M/T is at least 0.75
RetainedKeys == {k \in RegistryKeys : 8 * BlocksM(k) >= 3 * TotalT(k)}

\* the retained keys no retained key outscores: 2*M/T compared crosswise
TopKeys ==
    {k \in RetainedKeys :
        \A other \in RetainedKeys : BlocksM(other) * TotalT(k) <= BlocksM(k) * TotalT(other)}

\* the index a fresh IbgeIndex(municipios) holds
FreshIndex == IndexLoop(municipios, 1, EmptyDict, <<>>).name_to_municipios

\* C1: an input whose normalized key is a key of the index is matched in the
\* exact stage with status "OK": with the group's only entry, or with the
\* disambiguator's choice when the group has several; every input with the
\* same normalized key returns the same entry.
C1_ExactStage ==
    (Called /\ InputKey \in RegistryKeys) =>
        /\ result.status = "OK"
        /\ result.stage = "exact"
        /\ ~result.raised
        /\ Len(GroupOf(InputKey)) = 1 => result.muni_data = <<GroupOf(InputKey)[1]>>
        /\ Len(GroupOf(InputKey)) > 1 => result.muni_data = <<Preferred(GroupOf(InputKey))>>
        /\ \A other \in InputPool :
              normalize_name(other) = InputKey =>
                  Returned(match(name_to_municipios, normalized_names, other)) = result

\* "Ábc" is matched exactly against a group of several entries named "Abc"
\* and "ábc", and the entry of the preferred region, not the first, is returned
C1_Witness ==
    /\ Called
    /\ municipio_input = <<"AACUTE", "b", "c">>
    /\ Len(GroupOf(InputKey)) > 1
    /\ GroupOf(InputKey)[1].loc.regiao # "Sudeste"
    /\ result.status = "OK"
    /\ result.stage = "exact"
    /\ result.muni_data[1].loc.regiao = "Sudeste"
    /\ result.muni_data[1].nome # municipio_input

\* C2: on every non-empty list the disambiguator returns one entry of the
\* list and does not raise: the first entry whose region is "Sudeste",
\* wherever it stands, a missing or malformed hierarchy counting as another
\* region; the first entry of the list when none is of that region.
C2_Disambiguator ==
    /\ pc = "indexed" =>
          \A key \in DOMAIN name_to_municipios :
              LET lista == name_to_municipios[key]
                  choice == choose_preferred_municipio(lista)
              IN  lista # <<>> =>
                      /\ ~choice.raised
                      /\ Len(choice.chosen) = 1
                      /\ \E i \in 1..Len(lista) : choice.chosen[1] = lista[i]
                      /\ choice.chosen[1] = Preferred(lista)
    /\ (Called /\ result.stage = "exact" /\ Len(GroupOf(InputKey)) > 1) =>
          /\ ~result.raised
          /\ result.muni_data = <<Preferred(GroupOf(InputKey))>>

\* a group of three: a malformed entry, an entry of another region, then the
\* entry of the preferred region, which is the one returned
C2_Witness ==
    /\ Called
    /\ result.stage = "exact"
    /\ Len(GroupOf(InputKey)) = 3
    /\ GroupOf(InputKey)[1].loc.shape = "malformed"
    /\ GroupOf(InputKey)[2].loc.regiao = "Sul"
    /\ GroupOf(InputKey)[3].loc.regiao = "Sudeste"
    /\ result.muni_data = <<GroupOf(InputKey)[3]>>

\* C3: in the approximate stage a highest-scoring retained key decides: a
\* group of one entry gives "OK" with that entry, a group of several gives
\* "NAO_ENCONTRADO" with no entry, whatever lower-scoring keys were retained.
C3_ApproxRefuses ==
    (Called /\ InputKey \notin RegistryKeys /\ RetainedKeys # {}) =>
        /\ result.stage = "approx"
        /\ ~result.raised
        /\ \E best \in TopKeys :
              /\ Len(GroupOf(best)) = 1 =>
                    result.status = "OK" /\ result.muni_data = <<GroupOf(best)[1]>>
              /\ Len(GroupOf(best)) > 1 =>
                    result.status = "NAO_ENCONTRADO" /\ result.muni_data = <<>>

\* "abcx": the best key "abc" has two entries, the lower-scoring retained key
\* "abcd" has one, and the call returns "NAO_ENCONTRADO"
C3_Witness ==
    /\ Called
    /\ municipio_input = <<"a", "b", "c", "x">>
    /\ TopKeys = {<<"a", "b", "c">>}
    /\ Len(GroupOf(<<"a", "b", "c">>)) = 2
    /\ <<"a", "b", "c", "d">> \in RetainedKeys
    /\ Len(GroupOf(<<"a", "b", "c", "d">>)) = 1
    /\ result.status = "NAO_ENCONTRADO"
    /\ result.muni_data = <<>>

\* C4: when the normalized input is no key of the index, the candidates of
\* get_close_matches are the keys with 8*M >= 3*T (the best three of them),
\* a score of exactly 0.75 included; with no such key the call returns
\* "NAO_ENCONTRADO" with no entry.
C4_Threshold ==
    (Called /\ InputKey \notin RegistryKeys) =>
        LET candidates == get_close_matches(InputKey, normalized_names)
        IN  /\ SeqToSet(candidates) \subseteq RetainedKeys
            /\ Cardinality(RetainedKeys) <= MaxCandidates =>
                   SeqToSet(candidates) = RetainedKeys
            /\ Cardinality(RetainedKeys) >= MaxCandidates =>
                   Len(candidates) = MaxCandidates
            /\ RetainedKeys = {} =>
                   result.status = "NAO_ENCONTRADO" /\ result.muni_data = <<>>
            /\ result.status = "OK" => KeyOf(result.muni_data[1]) \in RetainedKeys
            /\ result.stage = "approx"

\* "abcx" against the only key "abcd": M = 3, T = 8, a score of exactly 0.75,
\* and the entry is returned
C4_Witness ==
    /\ Called
    /\ municipio_input = <<"a", "b", "c", "x">>
    /\ RegistryKeys = {<<"a", "b", "c", "d">>}
    /\ 8 * BlocksM(<<"a", "b", "c", "d">>) = 3 * TotalT(<<"a", "b", "c", "d">>)
    /\ result.status = "OK"
    /\ result.muni_data = <<municipios[1]>>

\* the sum of the group sizes
RECURSIVE SumOfSizes(_, _)
SumOfSizes(n2m, keys) ==
    IF keys = {} THEN 0
    ELSE LET k == CHOOSE k \in keys : TRUE
         IN  Len(n2m[k]) + SumOfSizes(n2m, keys \ {k})

\* C5: every entry of the registry is in exactly one group, the group of the
\* normalized form of its own name, in registry order within the group; the
\* group sizes add up to the number of entries; normalized_names holds each
\* key of the mapping exactly once.
C5_IndexComplete ==
    pc = "indexed" =>
        /\ \A i \in 1..Len(municipios) :
              /\ KeyOf(municipios[i]) \in DOMAIN name_to_municipios
              /\ \A key \in DOMAIN name_to_municipios :
                    Cardinality({j \in 1..Len(name_to_municipios[key]) :
                                    name_to_municipios[key][j] = municipios[i]})
                        = (IF key = KeyOf(municipios[i]) THEN 1 ELSE 0)
        /\ \A key \in DOMAIN name_to_municipios : name_to_municipios[key] = GroupOf(key)
        /\ SumOfSizes(name_to_municipios, DOMAIN name_to_municipios) = Len(municipios)
        /\ SeqToSet(normalized_names) = DOMAIN name_to_municipios
        /\ Len(normalized_names) = Cardinality(DOMAIN name_to_municipios)

\* "ábc", "abcd", "Abc": two names with one key are grouped in registry order
C5_Witness ==
    /\ pc = "indexed"
    /\ Len(municipios) = 3
    /\ municipios[1].nome = <<"aacute", "b", "c">>
    /\ municipios[2].nome = <<"a", "b", "c", "d">>
    /\ municipios[3].nome = <<"A", "b", "c">>
    /\ name_to_municipios[<<"a", "b", "c">>] = <<municipios[1], municipios[3]>>
    /\ Len(normalized_names) = 2

\* C6: no match call changes the index (the keys of name_to_municipios, the
\* groups, normalized_names), and what a call returns is what the same call
\* returns on the index as it was built, whatever calls came before.
C6_IndexImmutable ==
    /\ [][pc = "indexed" => UNCHANGED indexVars]_vars
    /\ [](Called =>
            /\ name_to_municipios = FreshIndex
            /\ result = Returned(match(FreshIndex, normalized_names, municipio_input)))

\* an approximate call on a key the index does not hold has returned, and
\* the index holds no group for that key
C6_Witness ==
    /\ Called
    /\ municipio_input = <<"a", "b", "c", "x">>
    /\ result.stage = "approx"
    /\ result.status = "OK"
    /\ InputKey \notin DOMAIN name_to_municipios
    /\ name_to_municipios = FreshIndex

\* two or more retained keys share the highest score
TieAtTop == Called /\ InputKey \notin RegistryKeys /\ Cardinality(TopKeys) >= 2

\* the greatest of a set of keys in str order
GreatestKey(keys) == CHOOSE k \in keys : \A other \in keys : ~StrLess(k, other)

\* C9 as stated: with a tie for the highest score, another iteration order
\* of normalized_names makes the same call return something else.
C9_OrderDecides ==
    TieAtTop =>
        \E order \in Orderings(SeqToSet(normalized_names)) :
            Returned(match(name_to_municipios, order, municipio_input)) # result

\* C9, amended: in the approximate stage no iteration order of
\* normalized_names changes the candidates or what the call returns, and
\* with a tie for the highest score the best key is the greatest of the tied
\* keys in str order.
C9_OrderIndependent ==
    (Called /\ InputKey \notin RegistryKeys) =>
        \E candidates \in {get_close_matches(InputKey, normalized_names)} :
            /\ \A order \in Orderings(SeqToSet(normalized_names)) :
                  /\ get_close_matches(InputKey, order) = candidates
                  /\ Returned(match(name_to_municipios, order, municipio_input)) = result
            /\ TieAtTop => candidates[1] = GreatestKey(TopKeys)

\* "abcx" ties "abcd" and "abce" at 0.75; normalized_names lists "abcd"
\* first, and the entry of "abce" is returned
C9_Witness ==
    /\ TieAtTop
    /\ TopKeys = {<<"a", "b", "c", "d">>, <<"a", "b", "c", "e">>}
    /\ normalized_names[1] = <<"a", "b", "c", "d">>
    /\ result.status = "OK"
    /\ KeyOf(result.muni_data[1]) = <<"a", "b", "c", "e">>

(***************************************************************************)
(* processar_csv: the loop over the rows of input.csv, one row a step,     *)
(* then the statistics.  A row is what csv.DictReader yields: "municipio"  *)
(* and "populacao" are str, and "populacao" is None when the line has      *)
(* fewer fields than the header.                                           *)
(***************************************************************************)
\* int(c) for one decimal digit
DigitValue(c) == IF c = "1" THEN 1 ELSE 7

IsDigit(c) == c \in {"1", "7"}

RECURSIVE DecimalValue(_, _, _)
\* the value of the digits of s from place i on, acc being that of the others
DecimalValue(s, i, acc) ==
    IF i > Len(s) THEN acc
    ELSE DecimalValue(s, i + 1, 10 * acc + DigitValue(s[i]))

\* int(x): TypeError on None; ValueError on a str that is empty or holds a
\* character that is no digit; the decimal value otherwise
IntOf(x) ==
    IF ~IsStr(x) THEN [error |-> "TypeError", value |-> 0]
    ELSE IF x = <<>> \/ \E i \in 1..Len(x) : ~IsDigit(x[i])
         THEN [error |-> "ValueError", value |-> 0]
    ELSE [error |-> "", value |-> DecimalValue(x, 1, 0)]

\* lines 277-281: `except ValueError` sets 0; any other exception leaves the
\* function
PopulacaoInput(parsed) ==
    IF parsed.error = "TypeError" THEN [aborted |-> TRUE, value |-> 0]
    ELSE IF parsed.error = "ValueError" THEN [aborted |-> FALSE, value |-> 0]
    ELSE [aborted |-> FALSE, value |-> parsed.value]

\* a value that can be a dict key: a list cannot
Hashable(v) == v # ListName

\* what one row adds to the counters and writes to its output line
Outcome(status, municipio_ibge, uf, regiao, id_ibge, ok, nao, erro, pop, counted) ==
    [status |-> status, municipio_ibge |-> municipio_ibge, uf |-> uf, regiao |-> regiao,
     id_ibge |-> id_ibge, ok |-> ok, nao |-> nao, erro |-> erro, pop |-> pop,
     counted |-> counted]

\* lines 302-319: loc is what reading the location of muni_data yields
Enrich(m, loc, populacao_input) ==
    IF loc.raised
    THEN Outcome("ERRO_API", m.nome, "", "", m.id, 0, 0, 1, 0, FALSE)
    ELSE IF loc.regiao # "" /\ ~Hashable(loc.regiao)
    THEN Outcome("ERRO_API", m.nome, loc.sigla, loc.regiao, m.id, 1, 0, 1,
                 populacao_input, FALSE)
    ELSE Outcome("OK", m.nome, loc.sigla, loc.regiao, m.id, 1, 0, 0,
                 populacao_input, loc.regiao # "")

\* lines 289-325: r is what match returned or raised
Classify(r, populacao_input) ==
    IF r.raised THEN Outcome("ERRO_API", <<>>, "", "", "", 0, 0, 1, 0, FALSE)
    ELSE IF r.status = "OK"
    THEN Enrich(r.muni_data[1], RegionLookup(r.muni_data[1]), populacao_input)
    ELSE Outcome("NAO_ENCONTRADO", <<>>, "", "", "", 0, 1, 0, 0, FALSE)

\* d[k] += v on a defaultdict(int)
DictAdd(d, k, v) ==
    IF k \in DOMAIN d THEN [d EXCEPT ![k] = @ + v] ELSE (k :> v) @@ d

\* lines 327-337
OutputLine(row, populacao_input, out) ==
    [municipio_input |-> row.municipio, populacao_input |-> populacao_input,
     municipio_ibge |-> out.municipio_ibge, uf |-> out.uf, regiao |-> out.regiao,
     id_ibge |-> out.id_ibge, status |-> out.status]

\* the registries of the driver: one entry named "Abc" whose location is
\* full, missing, malformed or carries a list as region name; and two entries
CsvRegistries ==
    { <<[id |-> 1, nome |-> <<"A", "b", "c">>, loc |-> LocSudeste]>>,
      <<[id |-> 1, nome |-> <<"A", "b", "c">>, loc |-> LocMissing]>>,
      <<[id |-> 1, nome |-> <<"A", "b", "c">>, loc |-> LocMalformed]>>,
      <<[id |-> 1, nome |-> <<"A", "b", "c">>, loc |-> LocListName]>>,
      <<[id |-> 1, nome |-> <<"A", "b", "c">>, loc |-> LocSul],
        [id |-> 2, nome |-> <<"a", "b", "c", "d">>, loc |-> LocSudeste]>> }

\* the rows: "abc", "abcx" or "-" as name; "17", "x", "" or no field as
\* population
RowPool ==
    [municipio : {<<"a", "b", "c">>, <<"a", "b", "c", "x">>, <<"HYPHEN">>},
     populacao : {<<"1", "7">>, <<"x">>, <<>>, NotStr}]

\* main has built the index; processar_csv has set its counters
InitCsv ==
    /\ pc = "csv"
    /\ \E ms \in CsvRegistries :
        \E built \in {IndexLoop(ms, 1, EmptyDict, <<>>)} :
            /\ municipios = ms
            /\ name_to_municipios = built.name_to_municipios
            /\ normalized_names \in ListOfSet(built.normalized_names)
    /\ IdleNorm /\ IdleCall /\ IdleCsv

\* lines 283-337 for a row whose population was read
Process(row, populacao_input, r, out) ==
    /\ municipio_input' = row.municipio
    /\ result' = Returned(r)
    /\ name_to_municipios' = r.n2m
    /\ total_ok' = total_ok + out.ok
    /\ total_nao_encontrado' = total_nao_encontrado + out.nao
    /\ total_erro_api' = total_erro_api + out.erro
    /\ pop_total_ok' = pop_total_ok + out.pop
    /\ soma_por_regiao' =
          IF out.counted THEN DictAdd(soma_por_regiao, out.regiao, populacao_input)
          ELSE soma_por_regiao
    /\ cont_por_regiao' =
          IF out.counted THEN DictAdd(cont_por_regiao, out.regiao, 1)
          ELSE cont_por_regiao
    /\ linhas_output' = Append(linhas_output, OutputLine(row, populacao_input, out))
    /\ UNCHANGED pc

\* the exception of line 278 leaves processar_csv and main
Abort ==
    /\ pc' = "aborted"
    /\ UNCHANGED <<callVars, name_to_municipios, total_ok, total_nao_encontrado,
                   total_erro_api, pop_total_ok, soma_por_regiao, cont_por_regiao,
                   linhas_output>>

\* one turn of `for row in reader`
ProcessRow ==
    /\ pc = "csv"
    /\ Len(rows_read) < MaxRows
    /\ \E row \in RowPool :
        \E populacao \in {PopulacaoInput(IntOf(row.populacao))} :
            /\ rows_read' = Append(rows_read, row)
            /\ total_municipios' = total_municipios + 1
            /\ IF populacao.aborted THEN Abort
               ELSE \E r \in {match(name_to_municipios, normalized_names, row.municipio)} :
                       \E out \in {Classify(r, populacao.value)} :
                           Process(row, populacao.value, r, out)
    /\ UNCHANGED <<municipios, normalized_names, normVars, stats>>

\* lines 340-355, once the reader is exhausted.  A mean soma / qtd is kept as
\* the pair (soma, qtd).
Finish ==
    /\ pc = "csv"
    /\ stats' = [total_municipios |-> total_municipios,
                 total_ok |-> total_ok,
                 total_nao_encontrado |-> total_nao_encontrado,
                 total_erro_api |-> total_erro_api,
                 pop_total_ok |-> pop_total_ok,
                 medias_por_regiao |->
                     [regiao \in {k \in DOMAIN soma_por_regiao : cont_por_regiao[k] > 0} |->
                         <<soma_por_regiao[regiao], cont_por_regiao[regiao]>>]]
    /\ pc' = "done"
    /\ UNCHANGED <<indexVars, normVars, callVars, rows_read, linhas_output,
                   total_municipios, total_ok, total_nao_encontrado, total_erro_api,
                   pop_total_ok, soma_por_regiao, cont_por_regiao>>

NextCsv == ProcessRow \/ Finish

SpecCsv == InitCsv /\ [][NextCsv]_vars

\* the places of linhas_output whose status is "OK"
OkLines == {i \in 1..Len(linhas_output) : linhas_output[i].status = "OK"}

RECURSIVE SumOfPopulacao(_)
\* the sum of populacao_input over the lines at the places of a set
SumOfPopulacao(places) ==
    IF places = {} THEN 0
    ELSE LET i == CHOOSE i \in places : TRUE
         IN  linhas_output[i].populacao_input + SumOfPopulacao(places \ {i})

\* C8: no row aborts the run: every row read gets its output line, in input
\* order, whatever its name and its population field (non-numeric, empty or
\* missing).
C8_RowScoped ==
    /\ pc # "aborted"
    /\ Len(linhas_output) = Len(rows_read)
    /\ \A i \in 1..Len(linhas_output) :
          linhas_output[i].municipio_input = rows_read[i].municipio

\* C10: after each processed row every row read is counted in exactly one of
\* total_ok, total_nao_encontrado and total_erro_api; total_ok is the number
\* of output lines with status "OK" and pop_total_ok the sum of their
\* populacao_input, also when enriching a matched row raises.
C10_Partition ==
    pc \in {"csv", "done"} =>
        /\ total_municipios = total_ok + total_nao_encontrado + total_erro_api
        /\ total_ok = Cardinality(OkLines)
        /\ pop_total_ok = SumOfPopulacao(OkLines)
        /\ pc = "done" => stats.total_municipios
                            = stats.total_ok + stats.total_nao_encontrado + stats.total_erro_api
====
